---- MODULE Spec2Model ----
(***************************************************************************)
(* Model of TicTacToeGame (the rules engine of one match, lines 151-383)   *)
(* and of TicTacToeGameArea.handleCommand (the dispatcher of one area,     *)
(* lines 21-149) from ip1-handout/src/town/games/TicTacToeGameArea.ts.     *)
(*                                                                         *)
(* Spec drives ONE TicTacToeGame instance through its public operations    *)
(* join, leave and applyMove, as the unit tests in TicTacToeGame.test.ts   *)
(* do.  SpecPlay drives one instance through join and applyMove only and   *)
(* also records which cells the accepted moves targeted and how far the    *)
(* calls have followed the drawn game TieGame.  SpecArea drives one        *)
(* TicTacToeGameArea through handleCommand.                                *)
(***************************************************************************)
EXTENDS Integers, Sequences, FiniteSets, TLC

\* ------------------------------------------------------------------ bounds
\* Number of distinct player identities that may call the operations.
NumPlayers == 3
\* Number of TicTacToeGame instances one area may construct (SpecArea).
MaxGames == 2

\* --------------------------------------------------------------- constants
\* The board is 3 by 3: the loops of _checkForWin run for i = 0..2.
BoardSize == 3
\* "moves.length === 9" in applyMove: the number of cells of the board.
BoardCells == 9

PlayerIDs == 1..NumPlayers
\* The value of an optional field that is not set (x, o, winner).
undefined == 0
Coords == 0..(BoardSize - 1)
Pieces == {"X", "O"}

\* The messages of the errors the engine throws.  _join and _leave throw the
\* imported constants; applyMove throws string literals that spell the names
\* of the constants.
NoError == "none"
PLAYER_ALREADY_IN_GAME_MESSAGE == "PLAYER_ALREADY_IN_GAME_MESSAGE"
GAME_FULL_MESSAGE == "GAME_FULL_MESSAGE"
PLAYER_NOT_IN_GAME_MESSAGE == "PLAYER_NOT_IN_GAME_MESSAGE"
GAME_NOT_IN_PROGRESS_LITERAL == "GAME_NOT_IN_PROGRESS_MESSAGE"
MOVE_NOT_YOUR_TURN_LITERAL == "MOVE_NOT_YOUR_TURN_MESSAGE"
BOARD_POSITION_NOT_EMPTY_LITERAL == "BOARD_POSITION_NOT_EMPTY_MESSAGE"
\* The messages handleCommand throws itself, both imported constants.  The
\* value of GAME_NOT_IN_PROGRESS_MESSAGE is written as a text of its own, so
\* that it is not mistaken for the literal that applyMove throws.
GAME_NOT_IN_PROGRESS_MESSAGE == "value of GAME_NOT_IN_PROGRESS_MESSAGE"
INVALID_COMMAND_MESSAGE == "INVALID_COMMAND_MESSAGE"

\* ------------------------------------------------------------------- state
VARIABLES
  game,      \* the TicTacToeGame instance: [players, state]
  last,      \* the most recent call: operation, arguments, error, state before
  placed,    \* the cells targeted by successful applyMove calls, with the
             \* piece of the player who made the call (SpecPlay)
  tie,       \* how many calls of TieGame have been made, in order and with
             \* no other applyMove call; Off once another call was made
             \* (SpecPlay)
  area,      \* the TicTacToeGameArea: _game (no game, or one) and _history
  nGames,    \* number of TicTacToeGame instances the area has constructed;
             \* the id of an instance is its number
  cmd,       \* the most recent handleCommand call: command, player, error,
             \* value returned, notifications emitted, area before the call
  ended      \* ids of the games of the area whose status became OVER

engineVars == <<game, last, placed, tie>>
areaVars == <<area, nGames, cmd, ended>>
vars == <<game, last, placed, tie, area, nGames, cmd, ended>>

\* ------------------------------------------------------------ the engine
\* new TicTacToeGame(): no players, no moves, WAITING_TO_START; x, o and
\* winner are not set.
TicTacToeGame ==
  [players |-> <<>>,
   state   |-> [moves  |-> <<>>,
                status |-> "WAITING_TO_START",
                x      |-> undefined,
                o      |-> undefined,
                winner |-> undefined]]

\* this._players.some(p => p.id === player.id)
InPlayers(g, p) == \E i \in 1..Len(g.players) : g.players[i] = p

\* this._players.filter(p => p.id !== player.id)
FilterOut(s, p) == SelectSeq(s, LAMBDA q : q # p)

\* _isPositionOccupied: some recorded move has this row and this column.
_isPositionOccupied(g, row, col) ==
  \E i \in 1..Len(g.state.moves) :
     g.state.moves[i].row = row /\ g.state.moves[i].col = col

\* moves.some(move => move.row === r && move.col === c && move.gamePiece === piece)
SomeMove(moves, r, c, piece) ==
  \E i \in 1..Len(moves) :
     moves[i].row = r /\ moves[i].col = c /\ moves[i].gamePiece = piece

\* _checkForWin: counts, over this.state.moves, the cells of the row, the
\* column and (when the cell lies on them) the two diagonals of (row, col)
\* that hold currentPlayerPiece.
_checkForWin(g, row, col, currentPlayerPiece) ==
  LET moves == g.state.moves
      rowCount == Cardinality({i \in Coords : SomeMove(moves, row, i, currentPlayerPiece)})
      colCount == Cardinality({i \in Coords : SomeMove(moves, i, col, currentPlayerPiece)})
      diagCount == Cardinality({i \in Coords : SomeMove(moves, i, i, currentPlayerPiece)})
      reverseDiagCount ==
        Cardinality({i \in Coords : SomeMove(moves, i, (BoardSize - 1) - i, currentPlayerPiece)})
  IN  \/ rowCount = BoardSize
      \/ colCount = BoardSize
      \/ (row = col /\ diagCount = BoardSize)
      \/ (row + col = BoardSize - 1 /\ reverseDiagCount = BoardSize)

\* applyMove without the test of whose turn it is.
applyMove_NoTurnCheck(g, move) ==
  LET moves == g.state.moves
      status == g.state.status
      x == g.state.x
      currentPlayerID == move.playerID
      currentPlayerPiece == IF currentPlayerID = x THEN "X" ELSE "O"
      row == move.move.row
      col == move.move.col
  IN  IF status # "IN_PROGRESS"
        THEN [err |-> GAME_NOT_IN_PROGRESS_LITERAL, game |-> g]
      ELSE IF _isPositionOccupied(g, row, col)
        THEN [err |-> BOARD_POSITION_NOT_EMPTY_LITERAL, game |-> g]
      ELSE IF _checkForWin(g, row, col, currentPlayerPiece)
        THEN [err |-> NoError,
              game |-> [g EXCEPT !.state.status = "OVER",
                                 !.state.winner = currentPlayerID]]
      ELSE IF Len(moves) = BoardCells
        THEN [err |-> NoError,
              game |-> [g EXCEPT !.state.status = "OVER",
                                 !.state.winner = undefined]]
      ELSE [err |-> NoError, game |-> g]

\* applyMove that takes the piece of the caller from the gamePiece of the
\* move instead of comparing the caller with state.x.
applyMove_PieceFromMove(g, move) ==
  LET moves == g.state.moves
      status == g.state.status
      currentPlayerID == move.playerID
      currentPlayerPiece == move.move.gamePiece
      row == move.move.row
      col == move.move.col
  IN  IF status # "IN_PROGRESS"
        THEN [err |-> GAME_NOT_IN_PROGRESS_LITERAL, game |-> g]
      ELSE IF \/ (currentPlayerPiece = "X" /\ Len(moves) % 2 # 0)
              \/ (currentPlayerPiece = "O" /\ Len(moves) % 2 = 0)
        THEN [err |-> MOVE_NOT_YOUR_TURN_LITERAL, game |-> g]
      ELSE IF _isPositionOccupied(g, row, col)
        THEN [err |-> BOARD_POSITION_NOT_EMPTY_LITERAL, game |-> g]
      ELSE IF _checkForWin(g, row, col, currentPlayerPiece)
        THEN [err |-> NoError,
              game |-> [g EXCEPT !.state.status = "OVER",
                                 !.state.winner = currentPlayerID]]
      ELSE IF Len(moves) = BoardCells
        THEN [err |-> NoError,
              game |-> [g EXCEPT !.state.status = "OVER",
                                 !.state.winner = undefined]]
      ELSE [err |-> NoError, game |-> g]

\* applyMove(move): move = [playerID, move |-> [row, col, gamePiece]].
\* The result is the error thrown (NoError when none) and the game after
\* the call.  newMovesArray is a local copy of the moves with the new move
\* pushed; the code never stores it back into this.state, and the win check
\* and the length test read the moves of this.state.
applyMove(g, move) ==
  LET moves == g.state.moves
      status == g.state.status
      x == g.state.x
      currentPlayerID == move.playerID
      currentPlayerPiece == IF currentPlayerID = x THEN "X" ELSE "O"
      row == move.move.row
      col == move.move.col
      newMovesArray == Append(moves, move.move)
  IN  IF status # "IN_PROGRESS"
        THEN [err |-> GAME_NOT_IN_PROGRESS_LITERAL, game |-> g]
      ELSE IF \/ (currentPlayerPiece = "X" /\ Len(moves) % 2 # 0)
              \/ (currentPlayerPiece = "O" /\ Len(moves) % 2 = 0)
        THEN [err |-> MOVE_NOT_YOUR_TURN_LITERAL, game |-> g]
      ELSE IF _isPositionOccupied(g, row, col)
        THEN [err |-> BOARD_POSITION_NOT_EMPTY_LITERAL, game |-> g]
      ELSE IF _checkForWin(g, row, col, currentPlayerPiece)
        THEN [err |-> NoError,
              game |-> [g EXCEPT !.state.status = "OVER",
                                 !.state.winner = currentPlayerID]]
      ELSE IF Len(moves) = BoardCells
        THEN [err |-> NoError,
              game |-> [g EXCEPT !.state.status = "OVER",
                                 !.state.winner = undefined]]
      ELSE [err |-> NoError, game |-> g]

\* _join that writes the second player into x instead of o.
_join_SecondIsX(g, player) ==
  IF InPlayers(g, player)
    THEN [err |-> PLAYER_ALREADY_IN_GAME_MESSAGE, game |-> g]
  ELSE IF Len(g.players) >= 2
    THEN [err |-> GAME_FULL_MESSAGE, game |-> g]
  ELSE IF Len(g.players) = 0
    THEN [err |-> NoError, game |-> [g EXCEPT !.state.x = player]]
  ELSE [err |-> NoError,
        game |-> [g EXCEPT !.state.x = player,
                           !.state.status = "IN_PROGRESS"]]

\* _join that tests "more than two players" instead of "two or more".
_join_FullAboveTwo(g, player) ==
  IF InPlayers(g, player)
    THEN [err |-> PLAYER_ALREADY_IN_GAME_MESSAGE, game |-> g]
  ELSE IF Len(g.players) > 2
    THEN [err |-> GAME_FULL_MESSAGE, game |-> g]
  ELSE IF Len(g.players) = 0
    THEN [err |-> NoError, game |-> [g EXCEPT !.state.x = player]]
  ELSE IF Len(g.players) = 1
    THEN [err |-> NoError,
          game |-> [g EXCEPT !.state.o = player,
                             !.state.status = "IN_PROGRESS"]]
  ELSE [err |-> NoError, game |-> g]

\* _join(player): the hook of TicTacToeGame; it sets x, o and the status but
\* does not itself add the player to _players.
_join(g, player) ==
  IF InPlayers(g, player)
    THEN [err |-> PLAYER_ALREADY_IN_GAME_MESSAGE, game |-> g]
  ELSE IF Len(g.players) >= 2
    THEN [err |-> GAME_FULL_MESSAGE, game |-> g]
  ELSE IF Len(g.players) = 0
    THEN [err |-> NoError, game |-> [g EXCEPT !.state.x = player]]
  ELSE IF Len(g.players) = 1
    THEN [err |-> NoError,
          game |-> [g EXCEPT !.state.o = player,
                             !.state.status = "IN_PROGRESS"]]
  ELSE [err |-> NoError, game |-> g]

\* _leave that names the player who leaves as the winner.
_leave_LeaverWins(g, player) ==
  IF ~InPlayers(g, player)
    THEN [err |-> PLAYER_NOT_IN_GAME_MESSAGE, game |-> g]
  ELSE
    LET remaining == FilterOut(g.players, player)
        g1 == [g EXCEPT !.players = remaining]
    IN  IF Len(remaining) = 1
          THEN [err |-> NoError,
                game |-> [g1 EXCEPT !.state.status = "OVER",
                                    !.state.winner = player]]
        ELSE IF Len(remaining) = 0
          THEN [err |-> NoError,
                game |-> [g1 EXCEPT !.state.status = "WAITING_TO_START"]]
        ELSE [err |-> NoError, game |-> g1]

\* _leave that also forgets who held x.
_leave_ClearsX(g, player) ==
  IF ~InPlayers(g, player)
    THEN [err |-> PLAYER_NOT_IN_GAME_MESSAGE, game |-> g]
  ELSE
    LET remaining == FilterOut(g.players, player)
        g1 == [g EXCEPT !.players = remaining, !.state.x = undefined]
    IN  IF Len(remaining) = 1
          THEN [err |-> NoError,
                game |-> [g1 EXCEPT !.state.status = "OVER",
                                    !.state.winner = remaining[1]]]
        ELSE IF Len(remaining) = 0
          THEN [err |-> NoError,
                game |-> [g1 EXCEPT !.state.status = "WAITING_TO_START"]]
        ELSE [err |-> NoError, game |-> g1]

\* _leave that marks the match OVER before it tests that the player is in it.
_leave_MarksOverFirst(g, player) ==
  LET g0 == [g EXCEPT !.state.status = "OVER"]
  IN  IF ~InPlayers(g, player)
        THEN [err |-> PLAYER_NOT_IN_GAME_MESSAGE, game |-> g0]
      ELSE
        LET remaining == FilterOut(g.players, player)
            g1 == [g EXCEPT !.players = remaining]
        IN  IF Len(remaining) = 1
              THEN [err |-> NoError,
                    game |-> [g1 EXCEPT !.state.status = "OVER",
                                        !.state.winner = remaining[1]]]
            ELSE IF Len(remaining) = 0
              THEN [err |-> NoError,
                    game |-> [g1 EXCEPT !.state.status = "WAITING_TO_START"]]
            ELSE [err |-> NoError, game |-> g1]

\* _leave(player): removes the player from _players, then sets the status
\* from the number of players that remain.  The winner is written only when
\* one player remains.
_leave(g, player) ==
  IF ~InPlayers(g, player)
    THEN [err |-> PLAYER_NOT_IN_GAME_MESSAGE, game |-> g]
  ELSE
    LET remaining == FilterOut(g.players, player)
        g1 == [g EXCEPT !.players = remaining]
    IN  IF Len(remaining) = 1
          THEN [err |-> NoError,
                game |-> [g1 EXCEPT !.state.status = "OVER",
                                    !.state.winner = remaining[1]]]
        ELSE IF Len(remaining) = 0
          THEN [err |-> NoError,
                game |-> [g1 EXCEPT !.state.status = "WAITING_TO_START"]]
        ELSE [err |-> NoError, game |-> g1]

\* Game.join(player) of the base class: runs the hook _join and, when it
\* does not throw, adds the player to _players.
join(g, player) ==
  LET r == _join(g, player)
  IN  IF r.err # NoError THEN r
      ELSE [r EXCEPT !.game.players = Append(r.game.players, player)]

\* Game.leave(player) of the base class: runs the hook _leave and, when it
\* does not throw, removes the player from _players.
leave(g, player) ==
  LET r == _leave(g, player)
  IN  IF r.err # NoError THEN r
      ELSE [r EXCEPT !.game.players = FilterOut(r.game.players, player)]

\* ------------------------------------------------------ the observed calls
NoMove == [row |-> -1, col |-> -1]

\* The piece of the player who calls applyMove, as the engine derives it.
PieceOf(g, p) == IF p = g.state.x THEN "X" ELSE "O"

\* Some accepted move targeted this cell.
Targeted(cells, row, col) == \E c \in cells : c.row = row /\ c.col = col

\* A game of nine alternating moves, X first, that fills the board with no
\* three in a row for either piece:   X O X
\*                                    X O O
\*                                    O X X
TieGame ==
  << [piece |-> "X", row |-> 0, col |-> 0], [piece |-> "O", row |-> 0, col |-> 1],
     [piece |-> "X", row |-> 0, col |-> 2], [piece |-> "O", row |-> 1, col |-> 1],
     [piece |-> "X", row |-> 1, col |-> 0], [piece |-> "O", row |-> 1, col |-> 2],
     [piece |-> "X", row |-> 2, col |-> 1], [piece |-> "O", row |-> 2, col |-> 0],
     [piece |-> "X", row |-> 2, col |-> 2] >>

Off == 0 - 1

\* The call applyMove(p, row, col) is the next call of TieGame: every
\* applyMove call so far was a call of TieGame, in order, and this one is made
\* on the match in progress by the player who holds the piece of the next move.
FollowsTieGame(p, row, col) ==
  /\ tie # Off
  /\ tie < Len(TieGame)
  /\ game.state.status = "IN_PROGRESS"
  /\ TieGame[tie + 1].row = row
  /\ TieGame[tie + 1].col = col
  /\ p = (IF TieGame[tie + 1].piece = "X" THEN game.state.x ELSE game.state.o)

\* ---------------------------------------------------------- the dispatcher
\* A new TicTacToeGameArea: no game, empty history (fields of the base class
\* GameArea).  _game is a sequence of no game or one game.
TicTacToeGameArea == [_game |-> <<>>, _history |-> <<>>]

\* new TicTacToeGame() as the area constructs it: the base class Game gives
\* the instance an id of its own (nanoid), here the number of the instance.
NewGame(id) ==
  [id |-> id, players |-> TicTacToeGame.players, state |-> TicTacToeGame.state]

\* !this._game || this._game.state.status !== 'IN_PROGRESS'
NotInProgress(a) ==
  Len(a._game) = 0 \/ a._game[1].state.status # "IN_PROGRESS"

\* The record pushed onto _history: the id of the game and a score of 0 under
\* the name of the player who sent the command (the name of a player is
\* written as the player's id).
HistoryRecord(g, player) == [gameID |-> g.id, scores |-> (player :> 0)]

\* The JoinGame branch that constructs a new game for every command.
handleJoinGame_AlwaysNew(a, n, command, player) ==
  LET n1 == n + 1
      r == join(NewGame(n1), player)
      a1 == [a EXCEPT !._game = <<r.game>>]
  IN  IF r.err # NoError
        THEN [err |-> r.err, ret |-> <<>>, emits |-> 0, area |-> a1, nGames |-> n1]
      ELSE [err |-> NoError, ret |-> <<r.game.id>>,
            emits |-> IF r.game.state.status = "IN_PROGRESS" THEN 1 ELSE 0,
            area |-> a1, nGames |-> n1]

\* handleCommand, command.type === 'JoinGame' (lines 52-72).  n is the
\* number of games constructed so far.  The result is the error thrown, the
\* value returned (<<id>> for {gameID: id}, <<>> for {} or none), the number
\* of calls of _emitAreaChanged, and the area and n after the call.
handleJoinGame(a, n, command, player) ==
  LET create == Len(a._game) = 0 \/ a._game[1].state.status = "OVER"
      n1 == IF create THEN n + 1 ELSE n
      g0 == IF create THEN NewGame(n1) ELSE a._game[1]
      r == join(g0, player)
      a1 == [a EXCEPT !._game = <<r.game>>]
  IN  IF r.err # NoError
        THEN [err |-> r.err, ret |-> <<>>, emits |-> 0, area |-> a1, nGames |-> n1]
      ELSE [err |-> NoError, ret |-> <<r.game.id>>,
            emits |-> IF r.game.state.status = "IN_PROGRESS" THEN 1 ELSE 0,
            area |-> a1, nGames |-> n1]

\* The end of GameMove and LeaveGame that clears a game that is OVER without
\* recording it.
AfterEngineCall_NoRecord(a, n, r, player) ==
  IF r.game.state.status = "OVER"
    THEN [err |-> NoError, ret |-> <<>>, emits |-> 1,
          area |-> [_game |-> <<>>, _history |-> a._history], nGames |-> n]
  ELSE [err |-> NoError, ret |-> <<>>, emits |-> 1,
        area |-> [a EXCEPT !._game = <<r.game>>], nGames |-> n]

\* The end of GameMove and LeaveGame that records a game that is OVER
\* without clearing it.
AfterEngineCall_KeepsGame(a, n, r, player) ==
  IF r.game.state.status = "OVER"
    THEN [err |-> NoError, ret |-> <<>>, emits |-> 1,
          area |-> [_game |-> <<r.game>>,
                    _history |-> Append(a._history, HistoryRecord(r.game, player))],
          nGames |-> n]
  ELSE [err |-> NoError, ret |-> <<>>, emits |-> 1,
        area |-> [a EXCEPT !._game = <<r.game>>], nGames |-> n]

\* What GameMove and LeaveGame do after the engine call r returned with no
\* error (lines 88-104, 121-137): record and clear a game that is OVER, emit
\* one notification, return {}.
AfterEngineCall(a, n, r, player) ==
  IF r.game.state.status = "OVER"
    THEN [err |-> NoError, ret |-> <<>>, emits |-> 1,
          area |-> [_game |-> <<>>,
                    _history |-> Append(a._history, HistoryRecord(r.game, player))],
          nGames |-> n]
  ELSE [err |-> NoError, ret |-> <<>>, emits |-> 1,
        area |-> [a EXCEPT !._game = <<r.game>>], nGames |-> n]

\* handleCommand, command.type === 'GameMove' (lines 73-111).  The gameID of
\* the command is not read: the move is bound to the id of this._game.
handleGameMove(a, n, command, player) ==
  IF NotInProgress(a)
    THEN [err |-> GAME_NOT_IN_PROGRESS_MESSAGE, ret |-> <<>>, emits |-> 0,
          area |-> a, nGames |-> n]
  ELSE
    LET gameMove == [playerID |-> player, gameID |-> a._game[1].id,
                     move |-> command.move]
        r == applyMove(a._game[1], gameMove)
    IN  IF r.err # NoError
          THEN [err |-> r.err, ret |-> <<>>, emits |-> 0,
                area |-> [a EXCEPT !._game = <<r.game>>], nGames |-> n]
        ELSE AfterEngineCall(a, n, r, player)

\* handleCommand, command.type === 'LeaveGame' (lines 112-144).  The gameID
\* of the command is not read.
handleLeaveGame(a, n, command, player) ==
  IF NotInProgress(a)
    THEN [err |-> GAME_NOT_IN_PROGRESS_MESSAGE, ret |-> <<>>, emits |-> 0,
          area |-> a, nGames |-> n]
  ELSE
    LET r == leave(a._game[1], player)
    IN  IF r.err # NoError
          THEN [err |-> r.err, ret |-> <<>>, emits |-> 0,
                area |-> [a EXCEPT !._game = <<r.game>>], nGames |-> n]
        ELSE AfterEngineCall(a, n, r, player)

\* handleCommand(command, player): the three supported commands, and the
\* error for every other type.
handleCommand(a, n, command, player) ==
  IF command.type = "JoinGame" THEN handleJoinGame(a, n, command, player)
  ELSE IF command.type = "GameMove" THEN handleGameMove(a, n, command, player)
  ELSE IF command.type = "LeaveGame" THEN handleLeaveGame(a, n, command, player)
  ELSE [err |-> INVALID_COMMAND_MESSAGE, ret |-> <<>>, emits |-> 0,
        area |-> a, nGames |-> n]

Init ==
  /\ game = TicTacToeGame
  /\ last = [op |-> "new", player |-> undefined, move |-> NoMove,
             err |-> NoError, pre |-> TicTacToeGame, replay |-> FALSE]
  /\ placed = {}
  /\ tie = 0
  /\ area = TicTacToeGameArea
  /\ nGames = 0
  /\ cmd = [type |-> "new", player |-> undefined, gameID |-> 0, move |-> NoMove,
            err |-> NoError, ret |-> <<>>, emits |-> 0,
            pre |-> TicTacToeGameArea, preGames |-> 0]
  /\ ended = {}

\* game.join(player)
Join(p) ==
  LET r == join(game, p)
  IN  /\ game' = r.game
      /\ last' = [op |-> "join", player |-> p, move |-> NoMove,
                  err |-> r.err, pre |-> game, replay |-> FALSE]
      /\ UNCHANGED <<placed, tie>>
      /\ UNCHANGED areaVars

\* game.leave(player)
Leave(p) ==
  LET r == leave(game, p)
  IN  /\ game' = r.game
      /\ last' = [op |-> "leave", player |-> p, move |-> NoMove,
                  err |-> r.err, pre |-> game, replay |-> FALSE]
      /\ UNCHANGED <<placed, tie>>
      /\ UNCHANGED areaVars

\* game.applyMove({playerID, gameID, move: {row, col, gamePiece}}): the call
\* and what is observed of it.
ApplyMoveCall(p, row, col, gamePiece) ==
  LET r == applyMove(game, [playerID |-> p,
                            move |-> [row |-> row, col |-> col,
                                      gamePiece |-> gamePiece]])
  IN  /\ game' = r.game
      /\ last' = [op |-> "applyMove", player |-> p,
                  move |-> [row |-> row, col |-> col],
                  err |-> r.err, pre |-> game,
                  replay |-> Targeted(placed, row, col)]

ApplyMove(p, row, col, gamePiece) ==
  /\ ApplyMoveCall(p, row, col, gamePiece)
  /\ UNCHANGED <<placed, tie>>
  /\ UNCHANGED areaVars

\* The same call, with the record of the accepted moves kept.
Play(p, row, col, gamePiece) ==
  /\ ApplyMoveCall(p, row, col, gamePiece)
  /\ placed' = IF last'.err = NoError
                 THEN placed \cup {[row |-> row, col |-> col,
                                    piece |-> PieceOf(game, p)]}
                 ELSE placed
  /\ tie' = IF FollowsTieGame(p, row, col) THEN tie + 1 ELSE Off
  /\ UNCHANGED areaVars

Next ==
  \/ \E p \in PlayerIDs : Join(p)
  \/ \E p \in PlayerIDs : Leave(p)
  \/ \E p \in PlayerIDs, row \in Coords, col \in Coords, gamePiece \in Pieces :
        ApplyMove(p, row, col, gamePiece)

Spec == Init /\ [][Next]_vars

NextPlay ==
  \/ \E p \in PlayerIDs : Join(p)
  \/ \E p \in PlayerIDs, row \in Coords, col \in Coords, gamePiece \in Pieces :
        Play(p, row, col, gamePiece)

SpecPlay == Init /\ [][NextPlay]_vars

\* ------------------------------------------------ the dispatcher, observed
\* The engine call that the command makes on the game in progress takes the
\* game to the status OVER.
EndsGame(command, player) ==
  /\ Len(area._game) = 1
  /\ area._game[1].state.status = "IN_PROGRESS"
  /\ \/ /\ command.type = "GameMove"
        /\ LET r == applyMove(area._game[1], [playerID |-> player, move |-> command.move])
           IN  r.err = NoError /\ r.game.state.status = "OVER"
     \/ /\ command.type = "LeaveGame"
        /\ LET r == leave(area._game[1], player)
           IN  r.err = NoError /\ r.game.state.status = "OVER"

\* One call of handleCommand and what is observed of it.  The call is left
\* out when it would construct more than MaxGames games.
HandleCommand(command, p) ==
  LET r == handleCommand(area, nGames, command, p)
  IN  /\ r.nGames <= MaxGames
      /\ area' = r.area
      /\ nGames' = r.nGames
      /\ cmd' = [type |-> command.type, player |-> p, gameID |-> command.gameID,
                 move |-> [row |-> command.move.row, col |-> command.move.col],
                 err |-> r.err, ret |-> r.ret, emits |-> r.emits,
                 pre |-> area, preGames |-> nGames]
      /\ ended' = IF EndsGame(command, p) THEN ended \cup {area._game[1].id} ELSE ended
      /\ UNCHANGED engineVars

GameIDs == 1..MaxGames

JoinGame(p) ==
  HandleCommand([type |-> "JoinGame", gameID |-> 0, move |-> NoMove], p)

GameMove(p, id, row, col, gamePiece) ==
  HandleCommand([type |-> "GameMove", gameID |-> id,
                 move |-> [row |-> row, col |-> col, gamePiece |-> gamePiece]], p)

LeaveGame(p, id) ==
  HandleCommand([type |-> "LeaveGame", gameID |-> id, move |-> NoMove], p)

\* A command of a type that handleCommand does not support.
OtherCommand(p) ==
  HandleCommand([type |-> "Other", gameID |-> 0, move |-> NoMove], p)

NextArea ==
  \/ \E p \in PlayerIDs : JoinGame(p)
  \/ \E p \in PlayerIDs, id \in GameIDs, row \in Coords, col \in Coords,
        gamePiece \in Pieces : GameMove(p, id, row, col, gamePiece)
  \/ \E p \in PlayerIDs, id \in GameIDs : LeaveGame(p, id)
  \/ \E p \in PlayerIDs : OtherCommand(p)

SpecArea == Init /\ [][NextArea]_vars

TypeOK ==
  /\ game.state.status \in {"WAITING_TO_START", "IN_PROGRESS", "OVER"}
  /\ game.state.x \in PlayerIDs \cup {undefined}
  /\ game.state.o \in PlayerIDs \cup {undefined}
  /\ game.state.winner \in PlayerIDs \cup {undefined}
  /\ Len(game.players) <= 2

\* ------------------------------------------------------------- properties
\* The last call was `op` and it raised no error.
Succeeded(op) == last.op = op /\ last.err = NoError

\* The eight lines of the board: three rows, three columns, two diagonals.
Lines ==
  {{<<r, c>> : c \in Coords} : r \in Coords} \cup
  {{<<r, c>> : r \in Coords} : c \in Coords} \cup
  {{<<i, i>> : i \in Coords}, {<<i, (BoardSize - 1) - i>> : i \in Coords}}

\* The accepted moves of `piece` cover some line.
HasLine(cells, piece) ==
  \E line \in Lines :
     \A rc \in line : [row |-> rc[1], col |-> rc[2], piece |-> piece] \in cells

\* The piece whose turn it is, from the parity of the length of the move log.
TurnOf(g) == IF Len(g.state.moves) % 2 = 0 THEN "X" ELSE "O"

\* The player holds X (is state.x), or holds O (is state.o and not state.x).
HoldsX(g, p) == p = g.state.x
HoldsO(g, p) == p = g.state.o /\ p # g.state.x

\* C1: every applyMove that succeeds appends exactly one entry to the move
\* log: the log grows by one and its last entry has the submitted row and
\* column.
C1_MoveAppended ==
  Succeeded("applyMove") =>
    /\ Len(game.state.moves) = Len(last.pre.state.moves) + 1
    /\ game.state.moves[Len(game.state.moves)].row = last.move.row
    /\ game.state.moves[Len(game.state.moves)].col = last.move.col

\* C2: after a successful applyMove the match is OVER with the acting player
\* as winner exactly when the cells taken by the acting player's piece,
\* the move just made included, cover a row, a column or a diagonal.
C2_WinIffLine ==
  Succeeded("applyMove") =>
    ((game.state.status = "OVER" /\ game.state.winner = last.player)
       <=> HasLine(placed, PieceOf(last.pre, last.player)))

\* C3: the nine alternating moves of TieGame, which fill the board with no
\* three in a row for either piece, leave the match OVER with no winner.
C3_FullBoardIsTie ==
  tie = Len(TieGame) =>
    (game.state.status = "OVER" /\ game.state.winner = undefined)

\* C5: on a match IN_PROGRESS, applyMove by the holder of the piece whose
\* turn it is not fails with the not-your-turn error and changes nothing;
\* applyMove by the holder of the piece whose turn it is is not rejected for
\* turn reasons, and with an empty move log the move of X succeeds.
C5_TurnEnforced ==
  (last.op = "applyMove" /\ last.pre.state.status = "IN_PROGRESS") =>
    LET pre == last.pre
        p == last.player
        wrongTurn == \/ (HoldsX(pre, p) /\ TurnOf(pre) = "O")
                     \/ (HoldsO(pre, p) /\ TurnOf(pre) = "X")
        rightTurn == \/ (HoldsX(pre, p) /\ TurnOf(pre) = "X")
                     \/ (HoldsO(pre, p) /\ TurnOf(pre) = "O")
    IN  /\ wrongTurn => (last.err = MOVE_NOT_YOUR_TURN_LITERAL /\ game = pre)
        /\ rightTurn => last.err # MOVE_NOT_YOUR_TURN_LITERAL
        /\ (HoldsX(pre, p) /\ Len(pre.state.moves) = 0) => last.err = NoError

\* C5 witness: the holder of O moved on an empty log of a match in progress
\* and was refused, the match unchanged.
C5_Witness ==
  /\ last.op = "applyMove"
  /\ last.pre.state.status = "IN_PROGRESS"
  /\ HoldsO(last.pre, last.player)
  /\ Len(last.pre.state.moves) = 0
  /\ last.err = MOVE_NOT_YOUR_TURN_LITERAL
  /\ game = last.pre

\* C6: on a match IN_PROGRESS, an applyMove to a cell that an earlier
\* successful move of the match targeted, made by a player whose turn it is,
\* fails with the position-not-empty error and changes nothing.
C6_OccupiedRejected ==
  (/\ last.op = "applyMove"
   /\ last.pre.state.status = "IN_PROGRESS"
   /\ last.replay
   /\ \/ (HoldsX(last.pre, last.player) /\ TurnOf(last.pre) = "X")
      \/ (HoldsO(last.pre, last.player) /\ TurnOf(last.pre) = "O"))
  => (last.err = BOARD_POSITION_NOT_EMPTY_LITERAL /\ game = last.pre)

\* The match as it is after `q` alone joined a newly created match.
AfterFirstJoin(q) ==
  [players |-> <<q>>,
   state   |-> [moves  |-> <<>>,
                status |-> "WAITING_TO_START",
                x      |-> q,
                o      |-> undefined,
                winner |-> undefined]]

\* C7: the first successful join of a newly created match makes the joiner
\* x, with o and winner not set, no moves and the status WAITING_TO_START;
\* the join of a different player that follows makes that player o, keeps x
\* and sets the status to IN_PROGRESS.
C7_JoinOrder ==
  Succeeded("join") =>
    /\ last.pre = TicTacToeGame => game = AfterFirstJoin(last.player)
    /\ \A q \in PlayerIDs \ {last.player} :
         last.pre = AfterFirstJoin(q) =>
           /\ game.state.o = last.player
           /\ game.state.x = q
           /\ game.state.status = "IN_PROGRESS"
           /\ game.players = <<q, last.player>>

\* C7 witness: a second player joined the match that the first joiner holds.
C7_Witness ==
  /\ Succeeded("join")
  /\ \E q \in PlayerIDs \ {last.player} : last.pre = AfterFirstJoin(q)
  /\ game.state.status = "IN_PROGRESS"

\* C8: join by a player who is already in the match fails with the
\* already-in-game error, join by another player when the match has two
\* players fails with the game-full error, and both leave the match as it was.
C8_JoinRejected ==
  last.op = "join" =>
    /\ InPlayers(last.pre, last.player) =>
         (last.err = PLAYER_ALREADY_IN_GAME_MESSAGE /\ game = last.pre)
    /\ (~InPlayers(last.pre, last.player) /\ Len(last.pre.players) = 2) =>
         (last.err = GAME_FULL_MESSAGE /\ game = last.pre)

\* C8 witness: a third player tried to join a match of two and was refused.
C8_Witness ==
  /\ last.op = "join"
  /\ ~InPlayers(last.pre, last.player)
  /\ Len(last.pre.players) = 2
  /\ last.err = GAME_FULL_MESSAGE
  /\ game = last.pre

\* C9: from a match IN_PROGRESS with two players, leave by either of them
\* gives the status OVER with the other player as winner and the move log as
\* it was; leave by a player who is not in the match fails with the
\* not-in-game error and changes nothing.
C9_Forfeit ==
  last.op = "leave" =>
    /\ (/\ last.pre.state.status = "IN_PROGRESS"
        /\ Len(last.pre.players) = 2
        /\ InPlayers(last.pre, last.player)) =>
         /\ last.err = NoError
         /\ game.state.status = "OVER"
         /\ game.state.winner \in {last.pre.players[1], last.pre.players[2]} \ {last.player}
         /\ game.state.moves = last.pre.state.moves
         /\ game.players = FilterOut(last.pre.players, last.player)
    /\ ~InPlayers(last.pre, last.player) =>
         (last.err = PLAYER_NOT_IN_GAME_MESSAGE /\ game = last.pre)

\* C9 witness: one of the two players of a match in progress left it.
C9_Witness ==
  /\ Succeeded("leave")
  /\ last.pre.state.status = "IN_PROGRESS"
  /\ Len(last.pre.players) = 2
  /\ game.state.status = "OVER"
  /\ game.state.winner # undefined
  /\ game.state.winner # last.player

\* C10: a successful leave after which no player remains gives the status
\* WAITING_TO_START and no winner, whatever the match was before.
C10_LastLeaveResets ==
  (Succeeded("leave") /\ Len(game.players) = 0) =>
    (game.state.status = "WAITING_TO_START" /\ game.state.winner = undefined)

\* C11: OVER is terminal for a match instance: a join, leave or applyMove
\* call on an instance whose status is OVER changes none of its status,
\* winner, x, o and moves.
C11_OverIsTerminal ==
  last.pre.state.status = "OVER" => game.state = last.pre.state

\* C17: on one match instance, the status IN_PROGRESS implies that x and o
\* are both set and that the match has two players, and the status
\* WAITING_TO_START implies that at most one of x and o is set.
C17_StatusAndPlayers ==
  /\ game.state.status = "IN_PROGRESS" =>
       /\ game.state.x # undefined
       /\ game.state.o # undefined
       /\ Len(game.players) = 2
  /\ game.state.status = "WAITING_TO_START" =>
       ~(game.state.x # undefined /\ game.state.o # undefined)

\* C18: on one match instance, the winner, when set, is the player recorded
\* as x or the player recorded as o.
C18_WinnerIsXorO ==
  game.state.winner # undefined =>
    game.state.winner \in {game.state.x, game.state.o}

RecordedIDs(h) == {h[i].gameID : i \in 1..Len(h)}

\* The area holds a game whose status is one of `statuses`.
HoldsGame(a, statuses) ==
  Len(a._game) = 1 /\ a._game[1].state.status \in statuses

\* C12: a JoinGame command received when the area has no game constructs a
\* new game with no moves and the status WAITING_TO_START, makes the sender
\* its x and returns its id, which differs from the id of every game
\* constructed or recorded before; a JoinGame received while the game is
\* WAITING_TO_START or IN_PROGRESS goes to that game and, when it succeeds,
\* returns that game's id.
C12_JoinGameTarget ==
  cmd.type = "JoinGame" =>
    /\ Len(cmd.pre._game) = 0 =>
         /\ cmd.err = NoError
         /\ Len(area._game) = 1
         /\ area._game[1].players = <<cmd.player>>
         /\ area._game[1].state = AfterFirstJoin(cmd.player).state
         /\ cmd.ret = <<area._game[1].id>>
         /\ area._game[1].id \notin 1..cmd.preGames
         /\ area._game[1].id \notin RecordedIDs(cmd.pre._history)
    /\ HoldsGame(cmd.pre, {"WAITING_TO_START", "IN_PROGRESS"}) =>
         /\ Len(area._game) = 1
         /\ area._game[1].id = cmd.pre._game[1].id
         /\ cmd.err = NoError => cmd.ret = <<cmd.pre._game[1].id>>
         /\ cmd.err = NoError =>
              area._game[1].players = Append(cmd.pre._game[1].players, cmd.player)

\* C12 witness: a JoinGame arrived after an earlier game had ended and been
\* recorded, and a second game was constructed for the sender.
C12_Witness ==
  /\ cmd.type = "JoinGame"
  /\ Len(cmd.pre._game) = 0
  /\ Len(cmd.pre._history) >= 1
  /\ cmd.err = NoError
  /\ cmd.ret = <<area._game[1].id>>

\* C13: GameMove and LeaveGame fail with the game-not-in-progress error and
\* change neither the game nor the history when the area has no game, when
\* its game is not IN_PROGRESS, or when the gameID of the command is not the
\* id of its game.
C13_NeedsGameInProgress ==
  (/\ cmd.type \in {"GameMove", "LeaveGame"}
   /\ \/ Len(cmd.pre._game) = 0
      \/ cmd.pre._game[1].state.status # "IN_PROGRESS"
      \/ cmd.gameID # cmd.pre._game[1].id)
  => (cmd.err = GAME_NOT_IN_PROGRESS_MESSAGE /\ area = cmd.pre)

\* C14: the history is append-only and holds exactly one record for each
\* game whose status became OVER: a command either leaves the history as it
\* was or appends one record, the record of the game that this command took
\* to OVER; no id is recorded twice and no other game is recorded.
C14_HistoryOfEndedGames ==
  /\ RecordedIDs(area._history) = ended
  /\ \A i, j \in 1..Len(area._history) :
       area._history[i].gameID = area._history[j].gameID => i = j
  /\ \/ area._history = cmd.pre._history
     \/ /\ Len(area._history) = Len(cmd.pre._history) + 1
        /\ SubSeq(area._history, 1, Len(cmd.pre._history)) = cmd.pre._history
        /\ HoldsGame(cmd.pre, {"IN_PROGRESS"})
        /\ area._history[Len(area._history)].gameID = cmd.pre._game[1].id
        /\ cmd.type \in {"GameMove", "LeaveGame"}
        /\ cmd.err = NoError

\* C14 witness: the LeaveGame that ended the second game of the area appended
\* its record behind the record of the first.
C14_Witness ==
  /\ cmd.type = "LeaveGame"
  /\ cmd.err = NoError
  /\ Len(cmd.pre._history) = 1
  /\ Len(area._history) = 2
  /\ area._history[1] = cmd.pre._history[1]
  /\ area._history[2].gameID = cmd.pre._game[1].id

\* C15: every JoinGame, GameMove and LeaveGame that succeeds emits a change
\* notification, the first JoinGame of a new game included, and a command
\* that fails emits none.
C15_NotifiesOnSuccess ==
  /\ (cmd.type \in {"JoinGame", "GameMove", "LeaveGame"} /\ cmd.err = NoError) =>
       cmd.emits >= 1
  /\ (cmd.type # "new" /\ cmd.err # NoError) => cmd.emits = 0

\* C16: a handleCommand call that ends in an error leaves the area as it was:
\* the same game or none, with the same players, x, o, status, winner and
\* moves, and the same history.
C16_ErrorChangesNothing ==
  (cmd.type # "new" /\ cmd.err # NoError) =>
    (area = cmd.pre /\ nGames = cmd.preGames)

\* C16 witness: a player who is not in the game in progress sent LeaveGame
\* and was refused, the area unchanged.
C16_Witness ==
  /\ cmd.type = "LeaveGame"
  /\ cmd.err = PLAYER_NOT_IN_GAME_MESSAGE
  /\ HoldsGame(cmd.pre, {"IN_PROGRESS"})
  /\ area = cmd.pre

\* C20: after any handleCommand call the area has no game or a game that is
\* WAITING_TO_START or IN_PROGRESS, never a game that is OVER.
C20_NoGameOverInArea ==
  Len(area._game) = 1 =>
    area._game[1].state.status \in {"WAITING_TO_START", "IN_PROGRESS"}

\* C20 witness: the command that took the game to OVER left the area with no
\* game and with the record of that game.
C20_Witness ==
  /\ cmd.err = NoError
  /\ HoldsGame(cmd.pre, {"IN_PROGRESS"})
  /\ cmd.pre._game[1].id \in ended
  /\ Len(area._game) = 0
  /\ Len(area._history) = Len(cmd.pre._history) + 1

\* The player is neither state.x nor state.o of the game.
Outsider(g, p) == p # g.state.x /\ p # g.state.o

\* C21: an applyMove on a match IN_PROGRESS by a player who is neither its x
\* nor its o ends in an error and leaves the match as it was (moves, status
\* and winner included), and so does a GameMove command of such a player on
\* the game in progress of the area.
C21_OutsiderRefused ==
  /\ (/\ last.op = "applyMove"
      /\ last.pre.state.status = "IN_PROGRESS"
      /\ Outsider(last.pre, last.player))
     => (last.err # NoError /\ game = last.pre)
  /\ (/\ cmd.type = "GameMove"
      /\ HoldsGame(cmd.pre, {"IN_PROGRESS"})
      /\ Outsider(cmd.pre._game[1], cmd.player))
     => (cmd.err # NoError /\ area = cmd.pre)

\* C21 witness: a player who never joined called applyMove on the match in
\* progress and was refused, the match unchanged.
C21_Witness ==
  /\ last.op = "applyMove"
  /\ last.pre.state.status = "IN_PROGRESS"
  /\ Outsider(last.pre, last.player)
  /\ ~InPlayers(last.pre, last.player)
  /\ last.err = MOVE_NOT_YOUR_TURN_LITERAL
  /\ game = last.pre

\* C21, the same refusal seen through handleCommand.
C21_AreaWitness ==
  /\ cmd.type = "GameMove"
  /\ HoldsGame(cmd.pre, {"IN_PROGRESS"})
  /\ Outsider(cmd.pre._game[1], cmd.player)
  /\ cmd.err = MOVE_NOT_YOUR_TURN_LITERAL
  /\ area = cmd.pre

\* C22: a match in which nine cells have been the target of successful
\* applyMove calls, hence after at least nine successful moves, has a move
\* log of at most nine entries and is OVER.
C22_OverByNinthMove ==
  /\ Len(game.state.moves) <= BoardCells
  /\ Cardinality({[row |-> c.row, col |-> c.col] : c \in placed}) = BoardCells
       => game.state.status = "OVER"

====
